---- MODULE Spec2Model ----
(***************************************************************************)
(* The apartment registry of src/bot.py: the three SQLite tables           *)
(* (apartments, admins, approval_requests) and the command handlers that   *)
(* read and write them.                                                    *)
(*                                                                         *)
(* Every handler is an operator from the database (and the command's       *)
(* arguments) to the set of results it can produce: the database it        *)
(* commits and the reply it sends.  A handler has more than one result     *)
(* only where it takes the first row of a SELECT without ORDER BY, whose   *)
(* order SQL leaves open.  main() builds the Application without           *)
(* concurrent_updates, so updates are handled one at a time, and no        *)
(* handler awaits between its first statement and its commit: a handler's  *)
(* database work is one step.                                              *)
(***************************************************************************)
EXTENDS Integers, FiniteSets, Sequences, TLC

\* ---------------------------------------------------------------- bounds
NumUsers == 3
\* The number of updates (commands and button presses) handled.
MaxUpdates == 4
\* The number of rows of an apartments table found at start-up.
MaxStatsRows == 4

\* ------------------------------------------------------------- constants
MAIN_ADMIN_ID == 1
HOUSE1_START == 1
HOUSE1_END == 252
HOUSE2_START == 253
HOUSE2_END == 403
FORCE_REGISTRATION_CODE == 2512

NULL == 0

Users == 1..NumUsers
\* Apartment numbers the commands are given: the last of house 1, the first
\* of house 2, the first number above both ranges, and a negative number,
\* which str.isdigit() refuses.
ApartmentInputs == {-1, HOUSE1_END, HOUSE2_START, HOUSE2_END + 1}
\* str.isdigit() of a command argument that is a decimal integer.
isdigit(arg) == arg >= 0
\* A command's arguments (context.args) are a sequence of decimal strings,
\* each modelled by the integer it denotes.
UserArgs == {<<u>> : u \in Users}
ApartmentArgs == {<<n>> : n \in ApartmentInputs}
CodeArgs == {<<>>, <<FORCE_REGISTRATION_CODE>>, <<FORCE_REGISTRATION_CODE + 1>>}
NoArgs == {<<>>}

VARIABLES apartments, admins, approval_requests, apartments_seq, requests_seq,
          reply, updates, conn

vars ==
    <<apartments, admins, approval_requests, apartments_seq, requests_seq,
      reply, updates, conn>>

\* The database as one value: the three tables and the AUTOINCREMENT
\* counters of apartments and approval_requests.
DB ==
    [apartments |-> apartments, admins |-> admins,
     approval_requests |-> approval_requests,
     apartments_seq |-> apartments_seq, requests_seq |-> requests_seq]

EmptyDB ==
    [apartments |-> {}, admins |-> {}, approval_requests |-> {},
     apartments_seq |-> 0, requests_seq |-> 0]

\* create_db on a fresh file: empty tables, the main admin seeded with
\* added_by NULL.
create_db(db) ==
    [db EXCEPT !.admins =
        IF \E a \in db.admins : a.user_id = MAIN_ADMIN_ID
        THEN db.admins
        ELSE db.admins \cup {[user_id |-> MAIN_ADMIN_ID, added_by |-> NULL]}]

\* is_admin_user with the lookup always succeeding.
is_admin_user_anyone(db, user_id) == TRUE

is_admin_user(db, user_id) == \E a \in db.admins : a.user_id = user_id

\* is_valid_apartment with house 2 open at the top.
is_valid_apartment_open(apartment_number) == apartment_number >= HOUSE1_START

is_valid_apartment(apartment_number) ==
    \/ (HOUSE1_START <= apartment_number /\ apartment_number <= HOUSE1_END)
    \/ (HOUSE2_START <= apartment_number /\ apartment_number <= HOUSE2_END)

\* What a handler leaves behind: the database it committed and its reply, the
\* reply's kind and the numbers its text reports (out).
ResultOut(db, op, actor, kind, out) ==
    [db |-> db, reply |-> [op |-> op, actor |-> actor, kind |-> kind, out |-> out]]

Result(db, op, actor, kind) == ResultOut(db, op, actor, kind, <<>>)

\* The orders in which fetchall() can return the rows of a SELECT without
\* ORDER BY.
Orders(S) ==
    {s \in [1..Cardinality(S) -> S] : \A i, j \in 1..Cardinality(S) : s[i] = s[j] => i = j}

Max(a, b) == IF a >= b THEN a ELSE b

\* The connection /adminassign holds: where its transaction stands (pc), the
\* command it serves, the database when it began (before) and the database
\* as its own statements have left it, uncommitted (db).
IdleConn ==
    [pc |-> "idle", actor_id |-> NULL, apartment_number |-> NULL,
     target_user_id |-> NULL, before |-> EmptyDB, db |-> EmptyDB]

\* ------------------------------------------------------ table statements
\* SELECT user_id FROM apartments WHERE apartment_number = ?
ResidentsOf(db, apartment_number) ==
    {row.user_id : row \in {x \in db.apartments : x.apartment_number = apartment_number}}

\* SELECT apartment_number FROM apartments WHERE user_id = ?
ApartmentsOf(db, user_id) ==
    {row.apartment_number : row \in {x \in db.apartments : x.user_id = user_id}}

\* The (apartment_number, user_id) pairs of the table.
Links(db) == {<<row.apartment_number, row.user_id>> : row \in db.apartments}

\* InsertApartment with the row lost (the INSERT never committed).
InsertApartmentLost(db, apartment_number, user_id) == db

\* The table without its UNIQUE constraint.
ViolatesUniqueNever(db, apartment_number, user_id) == FALSE

\* The UNIQUE(apartment_number, user_id) constraint: the INSERT raises
\* sqlite3.IntegrityError when the pair is present.
ViolatesUnique(db, apartment_number, user_id) ==
    <<apartment_number, user_id>> \in Links(db)

\* INSERT INTO apartments (apartment_number, user_id): a new row with the
\* next id, unless the constraint raises, and then the table is as it was.
\* No statement reads a row's id; it tells the order of insertion.
InsertApartment(db, apartment_number, user_id) ==
    IF ViolatesUnique(db, apartment_number, user_id)
    THEN db
    ELSE [db EXCEPT
            !.apartments = @ \cup {[id |-> db.apartments_seq + 1,
                                    apartment_number |-> apartment_number,
                                    user_id |-> user_id]},
            !.apartments_seq = @ + 1]

\* InsertRequest that links the requester as well.
InsertRequestLinked(db, apartment_number, requesting_user_id, approver_user_id) ==
    [db EXCEPT
        !.apartments = @ \cup {[id |-> db.apartments_seq + 1,
                                apartment_number |-> apartment_number,
                                user_id |-> requesting_user_id]},
        !.apartments_seq = @ + 1,
        !.approval_requests = @ \cup {[id |-> db.requests_seq + 1,
                                       apartment_number |-> apartment_number,
                                       requesting_user_id |-> requesting_user_id,
                                       approver_user_id |-> approver_user_id,
                                       status |-> "pending"]},
        !.requests_seq = @ + 1]

\* InsertRequest that names the requester as the approver.
InsertRequestToSelf(db, apartment_number, requesting_user_id, approver_user_id) ==
    [db EXCEPT
        !.approval_requests = @ \cup {[id |-> db.requests_seq + 1,
                                       apartment_number |-> apartment_number,
                                       requesting_user_id |-> requesting_user_id,
                                       approver_user_id |-> requesting_user_id,
                                       status |-> "pending"]},
        !.requests_seq = @ + 1]

\* INSERT INTO approval_requests: status defaults to 'pending'.
InsertRequest(db, apartment_number, requesting_user_id, approver_user_id) ==
    [db EXCEPT
        !.approval_requests = @ \cup {[id |-> db.requests_seq + 1,
                                       apartment_number |-> apartment_number,
                                       requesting_user_id |-> requesting_user_id,
                                       approver_user_id |-> approver_user_id,
                                       status |-> "pending"]},
        !.requests_seq = @ + 1]

\* The rows of SELECT ... FROM approval_requests WHERE requesting_user_id = ?
\* AND approver_user_id = ? AND status = 'pending'.
PendingFor(db, requesting_user_id, approver_user_id) ==
    {q \in db.approval_requests :
        /\ q.requesting_user_id = requesting_user_id
        /\ q.approver_user_id = approver_user_id
        /\ q.status = "pending"}

\* ---------------------------------------------------------------- handlers
\* request_apartment_access without the check for existing residents: every
\* valid claim inserts its link.
request_apartment_access_unchecked(db, requesting_user_id, args) ==
    IF Len(args) # 1 \/ ~isdigit(args[1])
    THEN {Result(db, "setapartment", requesting_user_id, "Usage")}
    ELSE IF ~is_valid_apartment(args[1])
    THEN {Result(db, "setapartment", requesting_user_id, "Invalid")}
    ELSE {Result(InsertApartment(db, args[1], requesting_user_id),
                 "setapartment", requesting_user_id, "Linked")}

\* request_apartment_access that refuses a requester who holds a link.
request_apartment_access_one_unit(db, requesting_user_id, args) ==
    IF Len(args) # 1 \/ ~isdigit(args[1])
    THEN {Result(db, "setapartment", requesting_user_id, "Usage")}
    ELSE IF ~is_valid_apartment(args[1])
    THEN {Result(db, "setapartment", requesting_user_id, "Invalid")}
    ELSE IF ApartmentsOf(db, requesting_user_id) # {}
    THEN {Result(db, "setapartment", requesting_user_id, "Conflict")}
    ELSE IF ResidentsOf(db, args[1]) # {}
    THEN {Result(InsertRequest(db, args[1], requesting_user_id, existing_user_id),
                 "setapartment", requesting_user_id, "Requested") :
            existing_user_id \in ResidentsOf(db, args[1])}
    ELSE {Result(InsertApartment(db, args[1], requesting_user_id),
                 "setapartment", requesting_user_id, "Linked")}

\* /setapartment
request_apartment_access(db, requesting_user_id, args) ==
    IF Len(args) # 1 \/ ~isdigit(args[1])
    THEN {Result(db, "setapartment", requesting_user_id, "Usage")}
    ELSE LET apartment_number == args[1] IN
    IF ~is_valid_apartment(apartment_number)
    THEN {Result(db, "setapartment", requesting_user_id, "Invalid")}
    ELSE IF ResidentsOf(db, apartment_number) # {}
    THEN \* existing_residents[0][0]: the first row of a SELECT without ORDER BY
         {Result(InsertRequest(db, apartment_number, requesting_user_id, existing_user_id),
                 "setapartment", requesting_user_id, "Requested") :
            existing_user_id \in ResidentsOf(db, apartment_number)}
    ELSE {Result(InsertApartment(db, apartment_number, requesting_user_id),
                 "setapartment", requesting_user_id, "Linked")}

\* ApproveUpdate with the UPDATE left out.
ApproveUpdateSkipped(db, requesting_user_id, approver_id) == db

\* UPDATE approval_requests SET status = 'approved' WHERE requesting_user_id = ?
\* AND approver_user_id = ? AND status = 'pending'
ApproveUpdate(db, requesting_user_id, approver_id) ==
    [db EXCEPT !.approval_requests =
        {IF q \in PendingFor(db, requesting_user_id, approver_id)
         THEN [q EXCEPT !.status = "approved"] ELSE q : q \in @}]

\* approve_request without the check that the requester holds no link.
approve_request_unchecked(db, approver_id, args) ==
    IF Len(args) = 0
    THEN {Result(db, "approve", approver_id, "Usage")}
    ELSE IF PendingFor(db, args[1], approver_id) = {}
    THEN {Result(db, "approve", approver_id, "NotFound")}
    ELSE {IF ViolatesUnique(db, request.apartment_number, args[1])
          THEN Result(db, "approve", approver_id, "Conflict")
          ELSE Result(ApproveUpdate(InsertApartment(db, request.apartment_number, args[1]),
                                    args[1], approver_id),
                      "approve", approver_id, "Approved") :
            request \in PendingFor(db, args[1], approver_id)}

\* /approve
approve_request(db, approver_id, args) ==
    IF Len(args) = 0
    THEN {Result(db, "approve", approver_id, "Usage")}
    ELSE LET requesting_user_id == args[1] IN
    IF PendingFor(db, requesting_user_id, approver_id) = {}
    THEN {Result(db, "approve", approver_id, "NotFound")}
    ELSE \* request = cursor.fetchone(): the first row of a SELECT without ORDER BY
         {IF ApartmentsOf(db, requesting_user_id) # {}
          THEN Result(db, "approve", approver_id, "Conflict")
          ELSE IF ViolatesUnique(db, request.apartment_number, requesting_user_id)
          THEN Result(db, "approve", approver_id, "Conflict")
          ELSE Result(ApproveUpdate(InsertApartment(db, request.apartment_number,
                                                    requesting_user_id),
                                    requesting_user_id, approver_id),
                      "approve", approver_id, "Approved") :
            request \in PendingFor(db, requesting_user_id, approver_id)}

\* UPDATE approval_requests SET status = 'rejected' WHERE requesting_user_id = ?
\* AND approver_user_id = ?
RejectUpdate(db, requesting_user_id, approver_id) ==
    [db EXCEPT !.approval_requests =
        {IF q.requesting_user_id = requesting_user_id /\ q.approver_user_id = approver_id
         THEN [q EXCEPT !.status = "rejected"] ELSE q : q \in @}]

\* reject_request behind the operators' gate of the admin commands.
reject_request_operators_only(db, approver_id, args) ==
    IF ~is_admin_user(db, approver_id)
    THEN {Result(db, "reject", approver_id, "Permission")}
    ELSE IF Len(args) = 0
    THEN {Result(db, "reject", approver_id, "Usage")}
    ELSE IF PendingFor(db, args[1], approver_id) # {}
    THEN {Result(RejectUpdate(db, args[1], approver_id), "reject", approver_id, "Rejected")}
    ELSE {Result(db, "reject", approver_id, "NotFound")}

\* /reject
reject_request(db, approver_id, args) ==
    IF Len(args) = 0
    THEN {Result(db, "reject", approver_id, "Usage")}
    ELSE LET requesting_user_id == args[1] IN
    IF PendingFor(db, requesting_user_id, approver_id) # {}
    THEN {Result(RejectUpdate(db, requesting_user_id, approver_id),
                 "reject", approver_id, "Rejected")}
    ELSE {Result(db, "reject", approver_id, "NotFound")}

\* force_registration with the DELETE FROM approval_requests left out.
force_registration_links_only(db, user_id, args) ==
    IF user_id # MAIN_ADMIN_ID
    THEN {Result(db, "forceregistration", user_id, "Permission")}
    ELSE IF Len(args) = 0 \/ args[1] # FORCE_REGISTRATION_CODE
    THEN {Result(db, "forceregistration", user_id, "Usage")}
    ELSE {Result([db EXCEPT !.apartments = {}], "forceregistration", user_id, "Reset")}

\* /forceregistration: DELETE FROM apartments; DELETE FROM approval_requests.
\* The AUTOINCREMENT counters survive a DELETE.
force_registration(db, user_id, args) ==
    IF user_id # MAIN_ADMIN_ID
    THEN {Result(db, "forceregistration", user_id, "Permission")}
    ELSE IF Len(args) = 0 \/ args[1] # FORCE_REGISTRATION_CODE
    THEN {Result(db, "forceregistration", user_id, "Usage")}
    ELSE {Result([db EXCEPT !.apartments = {}, !.approval_requests = {}],
                 "forceregistration", user_id, "Reset")}

\* delete_apartment whose DELETE takes only the apartment it reports.
delete_apartment_reported_only(db, user_id) ==
    IF ApartmentsOf(db, user_id) # {}
    THEN {ResultOut([db EXCEPT !.apartments =
                        {x \in @ : ~(x.user_id = user_id /\ x.apartment_number = apartment)}],
                    "deleteapartment", user_id, "Deleted", <<apartment>>) :
            apartment \in ApartmentsOf(db, user_id)}
    ELSE {Result(db, "deleteapartment", user_id, "NotFound")}

\* /deleteapartment: apartment = cursor.fetchone() is the first row of a
\* SELECT without ORDER BY, and apartment[0] is the number the group is told;
\* the DELETE takes every row of the user.
delete_apartment(db, user_id) ==
    IF ApartmentsOf(db, user_id) # {}
    THEN {ResultOut([db EXCEPT !.apartments = {x \in @ : x.user_id # user_id}],
                    "deleteapartment", user_id, "Deleted", <<apartment>>) :
            apartment \in ApartmentsOf(db, user_id)}
    ELSE {Result(db, "deleteapartment", user_id, "NotFound")}

\* admin_unlink whose DELETE ignores the apartment number it was given.
admin_unlink_every_link(db, actor_id, args) ==
    IF ~is_admin_user(db, actor_id)
    THEN {Result(db, "adminunlink", actor_id, "Permission")}
    ELSE IF Len(args) = 0
    THEN {Result(db, "adminunlink", actor_id, "Usage")}
    ELSE IF Len(args) > 1 /\ ~isdigit(args[2])
    THEN {Result(db, "adminunlink", actor_id, "Usage")}
    ELSE LET selected == IF Len(args) > 1
                         THEN {x \in db.apartments :
                                 x.user_id = args[1] /\ x.apartment_number = args[2]}
                         ELSE {x \in db.apartments : x.user_id = args[1]}
         IN IF selected = {}
            THEN {Result(db, "adminunlink", actor_id, "NotFound")}
            ELSE {ResultOut([db EXCEPT !.apartments = {x \in @ : x.user_id # args[1]}],
                            "adminunlink", actor_id, "Unlinked", removed_apartments) :
                    removed_apartments \in Orders({x.apartment_number : x \in selected})}

\* /adminunlink [user_id] [apartment_number]
admin_unlink(db, actor_id, args) ==
    IF ~is_admin_user(db, actor_id)
    THEN {Result(db, "adminunlink", actor_id, "Permission")}
    ELSE IF Len(args) = 0
    THEN {Result(db, "adminunlink", actor_id, "Usage")}
    ELSE IF Len(args) > 1 /\ ~isdigit(args[2])
    THEN {Result(db, "adminunlink", actor_id, "Usage")}
    ELSE LET target_user_id == args[1]
             selected == IF Len(args) > 1
                         THEN {x \in db.apartments :
                                 x.user_id = target_user_id /\ x.apartment_number = args[2]}
                         ELSE {x \in db.apartments : x.user_id = target_user_id}
         IN IF selected = {}
            THEN {Result(db, "adminunlink", actor_id, "NotFound")}
            ELSE {ResultOut([db EXCEPT !.apartments = @ \ selected],
                            "adminunlink", actor_id, "Unlinked", removed_apartments) :
                    removed_apartments \in Orders({x.apartment_number : x \in selected})}

\* admin_delete_apartment without the check for an apartment with no rows.
admin_delete_apartment_unchecked(db, actor_id, args) ==
    IF ~is_admin_user(db, actor_id)
    THEN {Result(db, "admindelete", actor_id, "Permission")}
    ELSE IF Len(args) = 0 \/ ~isdigit(args[1])
    THEN {Result(db, "admindelete", actor_id, "Usage")}
    ELSE IF ~is_valid_apartment(args[1])
    THEN {Result(db, "admindelete", actor_id, "Invalid")}
    ELSE {ResultOut([db EXCEPT !.apartments = {x \in @ : x.apartment_number # args[1]}],
                    "admindelete", actor_id, "Released", residents) :
            residents \in Orders(ResidentsOf(db, args[1]))}

\* admin_delete_apartment without the check of the ranges.
admin_delete_apartment_any_number(db, actor_id, args) ==
    IF ~is_admin_user(db, actor_id)
    THEN {Result(db, "admindelete", actor_id, "Permission")}
    ELSE IF Len(args) = 0 \/ ~isdigit(args[1])
    THEN {Result(db, "admindelete", actor_id, "Usage")}
    ELSE IF ResidentsOf(db, args[1]) = {}
    THEN {Result(db, "admindelete", actor_id, "Vacant")}
    ELSE {ResultOut([db EXCEPT !.apartments = {x \in @ : x.apartment_number # args[1]}],
                    "admindelete", actor_id, "Released", residents) :
            residents \in Orders(ResidentsOf(db, args[1]))}

\* /admindelete [apartment_number]: the reply lists residents, the rows of
\* the SELECT in the order fetchall() gave them.
admin_delete_apartment(db, actor_id, args) ==
    IF ~is_admin_user(db, actor_id)
    THEN {Result(db, "admindelete", actor_id, "Permission")}
    ELSE IF Len(args) = 0 \/ ~isdigit(args[1])
    THEN {Result(db, "admindelete", actor_id, "Usage")}
    ELSE LET apartment_number == args[1] IN
    IF ~is_valid_apartment(apartment_number)
    THEN {Result(db, "admindelete", actor_id, "Invalid")}
    ELSE IF ResidentsOf(db, apartment_number) = {}
    THEN {Result(db, "admindelete", actor_id, "Vacant")}
    ELSE {ResultOut([db EXCEPT !.apartments =
                        {x \in @ : x.apartment_number # apartment_number}],
                    "admindelete", actor_id, "Released", residents) :
            residents \in Orders(ResidentsOf(db, apartment_number))}

\* clear_pending_requests_from_db whose DELETE has no WHERE clause.
clear_pending_requests_from_db_all(db) ==
    [db |-> [db EXCEPT !.approval_requests = {}],
     deleted |-> Cardinality(db.approval_requests)]

\* DELETE FROM approval_requests WHERE status = 'pending', and its rowcount.
clear_pending_requests_from_db(db) ==
    [db |-> [db EXCEPT !.approval_requests = {q \in @ : q.status # "pending"}],
     deleted |-> Cardinality({q \in db.approval_requests : q.status = "pending"})]

\* /clearrequests
clear_approval_requests(db, actor_id) ==
    IF ~is_admin_user(db, actor_id)
    THEN {Result(db, "clearrequests", actor_id, "Permission")}
    ELSE LET cleared == clear_pending_requests_from_db(db) IN
         IF cleared.deleted = 0
         THEN {Result(cleared.db, "clearrequests", actor_id, "Empty")}
         ELSE {ResultOut(cleared.db, "clearrequests", actor_id, "Cleared",
                         <<cleared.deleted>>)}

\* The quick-action button: data is the button's callback_data, "^admin_".
handle_admin_callback(db, actor_id, data) ==
    IF data # "admin_clear_requests"
    THEN {Result(db, "callback", actor_id, "Ignored")}
    ELSE IF ~is_admin_user(db, actor_id)
    THEN {Result(db, "callback", actor_id, "Permission")}
    ELSE LET cleared == clear_pending_requests_from_db(db) IN
         IF cleared.deleted = 0
         THEN {Result(cleared.db, "callback", actor_id, "Empty")}
         ELSE {ResultOut(cleared.db, "callback", actor_id, "Cleared",
                         <<cleared.deleted>>)}

\* apartment_stats whose SELECT has no DISTINCT: it counts rows.
apartment_stats_rows(db, actor_id) ==
    IF ~is_admin_user(db, actor_id)
    THEN {Result(db, "apartmentstats", actor_id, "Permission")}
    ELSE LET total_house1 == HOUSE1_END - HOUSE1_START + 1
             total_house2 == HOUSE2_END - HOUSE2_START + 1
             occupied_house1 == Cardinality({x \in db.apartments :
                    HOUSE1_START <= x.apartment_number /\ x.apartment_number <= HOUSE1_END})
             occupied_house2 == Cardinality({x \in db.apartments :
                    HOUSE2_START <= x.apartment_number /\ x.apartment_number <= HOUSE2_END})
             occupied_all == occupied_house1 + occupied_house2
             other_occupied == Cardinality(db.apartments) - occupied_all
         IN {ResultOut(db, "apartmentstats", actor_id, "Stats",
                       <<occupied_house1, total_house1, Max(total_house1 - occupied_house1, 0),
                         occupied_house2, total_house2, Max(total_house2 - occupied_house2, 0),
                         occupied_all, total_house1 + total_house2,
                         Max(total_house1 + total_house2 - occupied_all, 0)>>
                       \o (IF other_occupied > 0 THEN <<other_occupied>> ELSE <<>>))}

\* /apartmentstats: the reply's numbers are, line by line, occupied, total and
\* free of house 1, of house 2 and of both, and then the number of occupied
\* apartment numbers outside both ranges when there is any.
apartment_stats(db, actor_id) ==
    IF ~is_admin_user(db, actor_id)
    THEN {Result(db, "apartmentstats", actor_id, "Permission")}
    ELSE LET total_house1 == HOUSE1_END - HOUSE1_START + 1
             total_house2 == HOUSE2_END - HOUSE2_START + 1
             total_all == total_house1 + total_house2
             occupied_numbers == {x.apartment_number : x \in db.apartments}
             occupied_house1 == Cardinality({number \in occupied_numbers :
                                    HOUSE1_START <= number /\ number <= HOUSE1_END})
             occupied_house2 == Cardinality({number \in occupied_numbers :
                                    HOUSE2_START <= number /\ number <= HOUSE2_END})
             occupied_all == occupied_house1 + occupied_house2
             other_occupied == Cardinality(occupied_numbers) - occupied_all
             free_house1 == Max(total_house1 - occupied_house1, 0)
             free_house2 == Max(total_house2 - occupied_house2, 0)
             free_all == Max(total_all - occupied_all, 0)
         IN {ResultOut(db, "apartmentstats", actor_id, "Stats",
                       <<occupied_house1, total_house1, free_house1,
                         occupied_house2, total_house2, free_house2,
                         occupied_all, total_all, free_all>>
                       \o (IF other_occupied > 0 THEN <<other_occupied>> ELSE <<>>))}

\* The four statements of /adminassign's transaction, in order.
AssignDeleteApartment(db, apartment_number) ==
    [db EXCEPT !.apartments = {x \in @ : x.apartment_number # apartment_number}]

\* AssignDeleteUser with the DELETE left out.
AssignDeleteUserSkipped(db, target_user_id) == db

AssignDeleteUser(db, target_user_id) ==
    [db EXCEPT !.apartments = {x \in @ : x.user_id # target_user_id}]

AssignInsert(db, apartment_number, target_user_id) ==
    InsertApartment(db, apartment_number, target_user_id)

\* AssignApprove whose UPDATE has lost AND status = 'pending'.
AssignApproveResolvedToo(db, actor_id, apartment_number, target_user_id) ==
    [db EXCEPT !.approval_requests =
        {IF /\ q.apartment_number = apartment_number
            /\ q.requesting_user_id = target_user_id
         THEN [q EXCEPT !.status = "approved", !.approver_user_id = actor_id]
         ELSE q : q \in @}]

\* UPDATE approval_requests SET status = 'approved', approver_user_id = ?
\* WHERE apartment_number = ? AND requesting_user_id = ? AND status = 'pending'
AssignApprove(db, actor_id, apartment_number, target_user_id) ==
    [db EXCEPT !.approval_requests =
        {IF /\ q.apartment_number = apartment_number
            /\ q.requesting_user_id = target_user_id
            /\ q.status = "pending"
         THEN [q EXCEPT !.status = "approved", !.approver_user_id = actor_id]
         ELSE q : q \in @}]

\* admin_assign without the check of the ranges.
admin_assign_any_number(db, actor_id, args) ==
    IF ~is_admin_user(db, actor_id)
    THEN {Result(db, "adminassign", actor_id, "Permission")}
    ELSE IF Len(args) < 2
    THEN {Result(db, "adminassign", actor_id, "Usage")}
    ELSE {Result(AssignApprove(
                    AssignInsert(
                        AssignDeleteUser(AssignDeleteApartment(db, args[1]), args[2]),
                        args[1], args[2]),
                    actor_id, args[1], args[2]),
                 "adminassign", actor_id, "Assigned")}

\* /adminassign [apartment_number] [user_id]
admin_assign(db, actor_id, args) ==
    IF ~is_admin_user(db, actor_id)
    THEN {Result(db, "adminassign", actor_id, "Permission")}
    ELSE IF Len(args) < 2
    THEN {Result(db, "adminassign", actor_id, "Usage")}
    ELSE LET apartment_number == args[1]
             target_user_id == args[2] IN
    IF ~is_valid_apartment(apartment_number)
    THEN {Result(db, "adminassign", actor_id, "Invalid")}
    ELSE {Result(AssignApprove(
                    AssignInsert(
                        AssignDeleteUser(
                            AssignDeleteApartment(db, apartment_number),
                            target_user_id),
                        apartment_number, target_user_id),
                    actor_id, apartment_number, target_user_id),
                 "adminassign", actor_id, "Assigned")}

\* add_admin open to every operator instead of the main admin alone.
add_admin_any_operator(db, actor_id, args) ==
    IF ~is_admin_user(db, actor_id)
    THEN {Result(db, "addadmin", actor_id, "Permission")}
    ELSE IF Len(args) = 0 \/ ~isdigit(args[1])
    THEN {Result(db, "addadmin", actor_id, "Usage")}
    ELSE {Result([db EXCEPT !.admins =
                    IF is_admin_user(db, args[1]) THEN @
                    ELSE @ \cup {[user_id |-> args[1], added_by |-> MAIN_ADMIN_ID]}],
                 "addadmin", actor_id, "Added")}

\* add_admin whose statement is INSERT OR REPLACE: the row of an id that is
\* in the table is written again.
add_admin_replacing(db, actor_id, args) ==
    IF actor_id # MAIN_ADMIN_ID
    THEN {Result(db, "addadmin", actor_id, "Permission")}
    ELSE IF Len(args) = 0 \/ ~isdigit(args[1])
    THEN {Result(db, "addadmin", actor_id, "Usage")}
    ELSE {Result([db EXCEPT !.admins =
                    {a \in @ : a.user_id # args[1]}
                        \cup {[user_id |-> args[1], added_by |-> MAIN_ADMIN_ID]}],
                 "addadmin", actor_id, "Added")}

\* /addadmin: INSERT OR IGNORE INTO admins (user_id, added_by)
add_admin(db, actor_id, args) ==
    IF actor_id # MAIN_ADMIN_ID
    THEN {Result(db, "addadmin", actor_id, "Permission")}
    ELSE IF Len(args) = 0 \/ ~isdigit(args[1])
    THEN {Result(db, "addadmin", actor_id, "Usage")}
    ELSE LET new_admin_id == args[1] IN
         {Result([db EXCEPT !.admins =
                    IF is_admin_user(db, new_admin_id) THEN @
                    ELSE @ \cup {[user_id |-> new_admin_id, added_by |-> MAIN_ADMIN_ID]}],
                 "addadmin", actor_id, "Added")}

\* remove_admin without its two guards for the main admin.
remove_admin_unguarded(db, actor_id, args) ==
    IF actor_id # MAIN_ADMIN_ID
    THEN {Result(db, "removeadmin", actor_id, "Permission")}
    ELSE IF Len(args) = 0 \/ ~isdigit(args[1])
    THEN {Result(db, "removeadmin", actor_id, "Usage")}
    ELSE {Result([db EXCEPT !.admins = {a \in @ : a.user_id # args[1]}],
                 "removeadmin", actor_id, "Removed")}

\* /removeadmin: DELETE FROM admins WHERE user_id = ? AND user_id != MAIN_ADMIN_ID
remove_admin(db, actor_id, args) ==
    IF actor_id # MAIN_ADMIN_ID
    THEN {Result(db, "removeadmin", actor_id, "Permission")}
    ELSE IF Len(args) = 0 \/ ~isdigit(args[1])
    THEN {Result(db, "removeadmin", actor_id, "Usage")}
    ELSE LET admin_id == args[1] IN
    IF admin_id = MAIN_ADMIN_ID
    THEN {Result(db, "removeadmin", actor_id, "Refused")}
    ELSE {Result([db EXCEPT !.admins =
                    {a \in @ : ~(a.user_id = admin_id /\ a.user_id # MAIN_ADMIN_ID)}],
                 "removeadmin", actor_id, "Removed")}

\* /listadmins
list_admins(db, requester_id) ==
    IF ~is_admin_user(db, requester_id)
    THEN {Result(db, "listadmins", requester_id, "Permission")}
    ELSE {Result(db, "listadmins", requester_id, "List")}

\* ----------------------------------------------------------------- actions
\* What a handler commits and replies becomes the next state.
Commit(res) ==
    /\ updates' = updates + 1
    /\ apartments' = res.db.apartments
    /\ admins' = res.db.admins
    /\ approval_requests' = res.db.approval_requests
    /\ apartments_seq' = res.db.apartments_seq
    /\ requests_seq' = res.db.requests_seq
    /\ reply' = res.reply
    /\ conn' = IdleConn

\* One update is handled: one of the handler's results is committed.  No
\* handler starts while another is between its first statement and its
\* commit.
Handle(results) ==
    /\ updates < MaxUpdates
    /\ conn.pc \in {"idle", "committed", "aborted"}
    /\ \E res \in results : Commit(res)

AssignArgs == {<<n, u>> : n \in ApartmentInputs, u \in Users} \cup NoArgs
UnlinkArgs == UserArgs \cup {<<u, n>> : u \in Users, n \in ApartmentInputs} \cup NoArgs
CallbackData == {"admin_clear_requests", "admin_other"}

SetApartment ==
    \E u \in Users, args \in ApartmentArgs \cup NoArgs :
        Handle(request_apartment_access(DB, u, args))

Approve ==
    \E u \in Users, args \in UserArgs \cup NoArgs : Handle(approve_request(DB, u, args))

Reject ==
    \E u \in Users, args \in UserArgs \cup NoArgs : Handle(reject_request(DB, u, args))

ForceRegistration ==
    \E u \in Users, args \in CodeArgs : Handle(force_registration(DB, u, args))

DeleteApartment ==
    \E u \in Users : Handle(delete_apartment(DB, u))

AdminUnlink ==
    \E u \in Users, args \in UnlinkArgs : Handle(admin_unlink(DB, u, args))

AdminDeleteApartment ==
    \E u \in Users, args \in ApartmentArgs \cup NoArgs :
        Handle(admin_delete_apartment(DB, u, args))

ClearApprovalRequests ==
    \E u \in Users : Handle(clear_approval_requests(DB, u))

AdminCallback ==
    \E u \in Users, data \in CallbackData : Handle(handle_admin_callback(DB, u, data))

ApartmentStats ==
    \E u \in Users : Handle(apartment_stats(DB, u))

AdminAssign ==
    \E u \in Users, args \in AssignArgs : Handle(admin_assign(DB, u, args))

AddAdmin ==
    \E u \in Users, args \in UserArgs \cup NoArgs : Handle(add_admin(DB, u, args))

RemoveAdmin ==
    \E u \in Users, args \in UserArgs \cup NoArgs : Handle(remove_admin(DB, u, args))

ListAdmins ==
    \E u \in Users : Handle(list_admins(DB, u))

\* /adminassign statement by statement.  sqlite3 opens the transaction at the
\* first DELETE; the statements change the connection's view only, until
\* conn.commit() writes it to the file.
AssignBegin(actor_id, args) ==
    /\ updates < MaxUpdates
    /\ conn.pc \in {"idle", "committed", "aborted"}
    /\ is_admin_user(DB, actor_id)
    /\ Len(args) >= 2
    /\ is_valid_apartment(args[1])
    /\ conn' = [pc |-> "delete_apartment", actor_id |-> actor_id,
                apartment_number |-> args[1], target_user_id |-> args[2],
                before |-> DB, db |-> DB]
    /\ UNCHANGED <<apartments, admins, approval_requests, apartments_seq, requests_seq,
                   reply, updates>>

AssignStatement(pc, next, db) ==
    /\ conn.pc = pc
    /\ conn' = [conn EXCEPT !.pc = next, !.db = db]
    /\ UNCHANGED <<apartments, admins, approval_requests, apartments_seq, requests_seq,
                   reply, updates>>

\* AssignStepDeleteApartment with the DELETE committed at once.
AssignStepDeleteApartmentCommitted ==
    /\ conn.pc = "delete_apartment"
    /\ conn' = [conn EXCEPT !.pc = "delete_user",
                            !.db = AssignDeleteApartment(conn.db, conn.apartment_number)]
    /\ apartments' = AssignDeleteApartment(conn.db, conn.apartment_number).apartments
    /\ UNCHANGED <<admins, approval_requests, apartments_seq, requests_seq, reply, updates>>

AssignStepDeleteApartment ==
    AssignStatement("delete_apartment", "delete_user",
                    AssignDeleteApartment(conn.db, conn.apartment_number))

AssignStepDeleteUser ==
    AssignStatement("delete_user", "insert",
                    AssignDeleteUser(conn.db, conn.target_user_id))

AssignStepInsert ==
    AssignStatement("insert", "update",
                    AssignInsert(conn.db, conn.apartment_number, conn.target_user_id))

AssignStepApprove ==
    AssignStatement("update", "commit",
                    AssignApprove(conn.db, conn.actor_id, conn.apartment_number,
                                  conn.target_user_id))

\* conn.commit()
AssignCommit ==
    /\ conn.pc = "commit"
    /\ apartments' = conn.db.apartments
    /\ admins' = conn.db.admins
    /\ approval_requests' = conn.db.approval_requests
    /\ apartments_seq' = conn.db.apartments_seq
    /\ requests_seq' = conn.db.requests_seq
    /\ reply' = [op |-> "adminassign", actor |-> conn.actor_id, kind |-> "Assigned", out |-> <<>>]
    /\ updates' = updates + 1
    /\ conn' = [conn EXCEPT !.pc = "committed"]

\* The handler is interrupted between its first DELETE and its commit (a
\* statement raises, the process dies): the with block rolls back, or the
\* next connection does from the journal.  Nothing was written.
AssignInterrupt ==
    /\ conn.pc \in {"delete_user", "insert", "update", "commit"}
    /\ conn' = [conn EXCEPT !.pc = "aborted"]
    /\ reply' = [op |-> "adminassign", actor |-> conn.actor_id, kind |-> "Interrupted", out |-> <<>>]
    /\ updates' = updates + 1
    /\ UNCHANGED <<apartments, admins, approval_requests, apartments_seq, requests_seq>>

AssignTransaction ==
    \/ \E u \in Users, args \in AssignArgs : AssignBegin(u, args)
    \/ AssignStepDeleteApartment
    \/ AssignStepDeleteUser
    \/ AssignStepInsert
    \/ AssignStepApprove
    \/ AssignCommit
    \/ AssignInterrupt

Init ==
    /\ apartments = create_db(EmptyDB).apartments
    /\ admins = create_db(EmptyDB).admins
    /\ approval_requests = create_db(EmptyDB).approval_requests
    /\ apartments_seq = create_db(EmptyDB).apartments_seq
    /\ requests_seq = create_db(EmptyDB).requests_seq
    /\ reply = [op |-> "start", actor |-> NULL, kind |-> "Started", out |-> <<>>]
    /\ updates = 0
    /\ conn = IdleConn

Next ==
    \/ SetApartment
    \/ Approve
    \/ Reject
    \/ ForceRegistration
    \/ DeleteApartment
    \/ AdminUnlink
    \/ AdminDeleteApartment
    \/ ClearApprovalRequests
    \/ AdminCallback
    \/ ApartmentStats
    \/ AdminAssign
    \/ AddAdmin
    \/ RemoveAdmin
    \/ ListAdmins

Spec == Init /\ [][Next]_vars

\* The commands that fill the registry, with /adminassign taken statement by
\* statement.
NextTxn ==
    \/ SetApartment
    \/ Approve
    \/ AssignTransaction

SpecTxn == Init /\ [][NextTxn]_vars

\* apartments.db outlives the process and the ranges configured in it:
\* create_db keeps the tables it finds (CREATE TABLE IF NOT EXISTS).  The
\* apartments tables /apartmentstats can be asked about: rows for numbers at
\* the ends of both ranges and just outside them, unique by pair.
StatsNumbers == {HOUSE1_START - 1, HOUSE1_START, HOUSE1_END, HOUSE2_END, HOUSE2_END + 1}
StatsRows ==
    {[id |-> 2 * n + u, apartment_number |-> n, user_id |-> u] :
        n \in StatsNumbers, u \in {MAIN_ADMIN_ID, MAIN_ADMIN_ID + 1}}
StatsTables == {T \in SUBSET StatsRows : Cardinality(T) <= MaxStatsRows}
\* The approval_requests tables beside them: none, or one request left
\* pending for the last apartment of house 1.
StatsRequests ==
    {{}, {[id |-> 1, apartment_number |-> HOUSE1_END,
           requesting_user_id |-> MAIN_ADMIN_ID + 2,
           approver_user_id |-> MAIN_ADMIN_ID + 1, status |-> "pending"]}}

InitStats ==
    /\ apartments \in StatsTables
    /\ admins = create_db(EmptyDB).admins
    /\ approval_requests \in StatsRequests
    /\ apartments_seq = 2 * (HOUSE2_END + 1) + MAIN_ADMIN_ID + 1
    /\ requests_seq = Cardinality(approval_requests)
    /\ reply = [op |-> "start", actor |-> NULL, kind |-> "Started", out |-> <<>>]
    /\ updates = 0
    /\ conn = IdleConn

\* The operators' commands that read the table by apartment number.
NextStats ==
    \/ ApartmentStats
    \/ AdminDeleteApartment

SpecStats == InitStats /\ [][NextStats]_vars

\* ------------------------------------------------------------------ claims
\* The claims are about what a command does to the database it finds.  Each
\* is stated of every database the registry can reach and every result the
\* command can have there.

\* apartments.db as earlier runs of the bot left it: create_db keeps the
\* tables it finds.  Replay gives the databases after the /setapartment
\* commands of run, each a pair <<apartment_number, user_id>>, handled in
\* order by request_apartment_access itself.
RECURSIVE Replay(_, _)
Replay(db, run) ==
    IF run = <<>>
    THEN {db}
    ELSE UNION {Replay(res.db, Tail(run)) :
                    res \in request_apartment_access(db, Head(run)[2], <<Head(run)[1]>>)}

MaxEarlier == 2
Registrations == {n \in ApartmentInputs : is_valid_apartment(n)} \X Users
EarlierRuns == UNION {[1..k -> Registrations] : k \in 0..MaxEarlier}

\* The bot starts over a database that earlier /setapartment commands filled.
InitRegistered ==
    /\ \E run \in EarlierRuns : \E db \in Replay(create_db(EmptyDB), run) :
        /\ apartments = db.apartments
        /\ admins = db.admins
        /\ approval_requests = db.approval_requests
        /\ apartments_seq = db.apartments_seq
        /\ requests_seq = db.requests_seq
    /\ reply = [op |-> "start", actor |-> NULL, kind |-> "Started", out |-> <<>>]
    /\ updates = 0
    /\ conn = IdleConn

\* Claims and their approval.
NextRegistered ==
    \/ SetApartment
    \/ Approve

SpecRegistered == InitRegistered /\ [][NextRegistered]_vars

ValidApartments == {n \in ApartmentInputs : is_valid_apartment(n)}
SameTables(db1, db2) ==
    /\ db1.apartments = db2.apartments
    /\ db1.approval_requests = db2.approval_requests
    /\ db1.admins = db2.admins
Resolved(q) == q.status \in {"approved", "rejected"}
\* The request with id q.id keeps its status in db.
KeepsStatus(q, db) ==
    \A q2 \in db.approval_requests : q2.id = q.id => q2.status = q.status
Operators(db) == {a.user_id : a \in db.admins}

\* The results of the commands that delete no request: submit-claim,
\* approve, reject, force-assign, release-own-link, unlink, release-unit.
NonDeletingResults(db) ==
    UNION ({request_apartment_access(db, u, args) : u \in Users, args \in ApartmentArgs}
           \cup {approve_request(db, u, args) : u \in Users, args \in UserArgs}
           \cup {reject_request(db, u, args) : u \in Users, args \in UserArgs}
           \cup {admin_assign(db, u, args) : u \in Users, args \in AssignArgs}
           \cup {delete_apartment(db, u) : u \in Users}
           \cup {admin_unlink(db, u, args) : u \in Users, args \in UnlinkArgs}
           \cup {admin_delete_apartment(db, u, args) : u \in Users, args \in ApartmentArgs})

\* C1: once a request's status is approved or rejected, no submit-claim,
\* approve, reject, force-assign, release-own-link, unlink or release-unit
\* changes it.
C1_ResolvedStatusIsFinal ==
    \A res \in NonDeletingResults(DB) :
        \A q \in approval_requests : Resolved(q) => KeepsStatus(q, res.db)

\* C3: submit-claim on an in-range unit adds exactly the link (u, r) and no
\* request when the unit has no link, and exactly one pending request for
\* (u, r), and no link, when it has one.
C3_SubmitClaim ==
    \A r \in Users, u \in ValidApartments :
        \A res \in request_apartment_access(DB, r, <<u>>) :
            IF ResidentsOf(DB, u) = {}
            THEN /\ Links(res.db) = Links(DB) \cup {<<u, r>>}
                 /\ <<u, r>> \notin Links(DB)
                 /\ res.db.approval_requests = approval_requests
            ELSE /\ Links(res.db) = Links(DB)
                 /\ approval_requests \subseteq res.db.approval_requests
                 /\ \E q \in res.db.approval_requests :
                        /\ res.db.approval_requests = approval_requests \cup {q}
                        /\ q \notin approval_requests
                        /\ \A old \in approval_requests : old.id # q.id
                        /\ q.status = "pending"
                        /\ q.apartment_number = u
                        /\ q.requesting_user_id = r

\* C3's case: a claim on an occupied unit has just added a pending request,
\* the newest, and the unit's links are another user's.
C3_Witness ==
    /\ reply.op = "setapartment" /\ reply.kind = "Requested"
    /\ \E q \in approval_requests :
        /\ q.id = requests_seq
        /\ q.status = "pending"
        /\ q.requesting_user_id = reply.actor
        /\ ResidentsOf(DB, q.apartment_number) # {}
        /\ reply.actor \notin ResidentsOf(DB, q.apartment_number)

\* C4: after force-assign(u, x) by an operator, the links of unit u are
\* exactly {(u, x)}, the links of x are exactly {(u, x)}, and the links of
\* other units and other users are as before.
C4_ForceAssign ==
    \A o \in Operators(DB), u \in ValidApartments, x \in Users :
        \A res \in admin_assign(DB, o, <<u, x>>) :
            /\ res.reply.kind = "Assigned"
            /\ {l \in Links(res.db) : l[1] = u} = {<<u, x>>}
            /\ {l \in Links(res.db) : l[2] = x} = {<<u, x>>}
            /\ {l \in Links(res.db) : l[1] # u /\ l[2] # x}
                    = {l \in Links(DB) : l[1] # u /\ l[2] # x}

\* C4's case: a force-assign has just run and left its link beside a link
\* of another unit and another user.
C4_Witness ==
    /\ reply.op = "adminassign" /\ reply.kind = "Assigned"
    /\ \E l1, l2 \in Links(DB) : l1[1] # l2[1] /\ l1[2] # l2[2]

\* C5: approve by the approver of a pending request whose requester holds a
\* link ends in Conflict, adds no link and leaves the request pending.
C5_ApproveConflict ==
    \A a, r \in Users :
        (PendingFor(DB, r, a) # {} /\ ApartmentsOf(DB, r) # {}) =>
            \A res \in approve_request(DB, a, <<r>>) :
                /\ res.reply.kind = "Conflict"
                /\ res.db.apartments = apartments
                /\ res.db.approval_requests = approval_requests

\* C5's case: an approve has just ended in Conflict, its requester linked to
\* another unit than the one requested.
C5_Witness ==
    /\ reply.op = "approve" /\ reply.kind = "Conflict"
    /\ \E q \in approval_requests :
        /\ q.status = "pending" /\ q.approver_user_id = reply.actor
        /\ ApartmentsOf(DB, q.requesting_user_id) # {}
        /\ q.apartment_number \notin ApartmentsOf(DB, q.requesting_user_id)

\* An approve and a reject, or two approves, by the same approver for the
\* same requester, in every order.
RacePairs == {<<"approve", "reject">>, <<"reject", "approve">>, <<"approve", "approve">>}
Resolve(op, db, a, r) ==
    IF op = "approve" THEN approve_request(db, a, <<r>>) ELSE reject_request(db, a, <<r>>)
Changes(db1, db2) ==
    db1.apartments # db2.apartments \/ db1.approval_requests # db2.approval_requests
StatusIn(db, id) == {q.status : q \in {x \in db.approval_requests : x.id = id}}

\* C2 as stated: of an approve and a reject (or two approves) by the approver
\* against the same pending request, exactly one changes the request's
\* status, the request ends in the status the winner wrote, and the link
\* (unit, requester) exists at the end exactly if that status is approved.
C2_ExactlyOneCommits ==
    \A a, r \in Users : \A q \in PendingFor(DB, r, a) : \A pair \in RacePairs :
        \A res1 \in Resolve(pair[1], DB, a, r) :
            \A res2 \in Resolve(pair[2], res1.db, a, r) :
                /\ StatusIn(res2.db, q.id) # {"pending"}
                /\ (StatusIn(res1.db, q.id) # {"pending"}) => ~Changes(res1.db, res2.db)
                /\ (<<q.apartment_number, r>> \in Links(res2.db))
                        <=> (StatusIn(res2.db, q.id) = {"approved"})

\* C2 as amended: at most one of the two changes anything; once one has
\* changed the requests, the other ends in Not-Found and changes neither
\* requests nor links; a reject changes no link; the pending requests of
\* (requester, approver) end in the status the winner wrote; and the pair
\* adds a link exactly if the winner is an approve: one link, of the
\* requester, for the unit of a request that was pending.
C2_AtMostOneCommits ==
    \A a, r \in Users : \A q \in PendingFor(DB, r, a) : \A pair \in RacePairs :
        \A res1 \in Resolve(pair[1], DB, a, r) :
            \A res2 \in Resolve(pair[2], res1.db, a, r) :
                LET first == Changes(DB, res1.db)
                    second == Changes(res1.db, res2.db)
                    winner == IF first THEN pair[1] ELSE IF second THEN pair[2] ELSE "none"
                IN /\ ~(first /\ second)
                   /\ first => res2.reply.kind = "NotFound"
                   /\ ~first => res1.reply.kind = "Conflict" /\ ApartmentsOf(DB, r) # {}
                   /\ winner = "approve" =>
                        /\ StatusIn(res2.db, q.id) = {"approved"}
                        /\ \E p \in PendingFor(DB, r, a) :
                            /\ <<p.apartment_number, r>> \notin Links(DB)
                            /\ Links(res2.db) = Links(DB) \cup {<<p.apartment_number, r>>}
                   /\ winner = "reject" =>
                        /\ StatusIn(res2.db, q.id) = {"rejected"}
                        /\ Links(res2.db) = Links(DB)
                   /\ winner = "none" =>
                        /\ StatusIn(res2.db, q.id) = {"pending"}
                        /\ pair = <<"approve", "approve">>

\* C2's case: a reject has just come second to an approve of the same
\* approver: it found nothing pending, the request is approved and its link
\* is there.
C2_Witness ==
    /\ reply.op = "reject" /\ reply.kind = "NotFound"
    /\ \E q \in approval_requests :
        /\ q.status = "approved" /\ q.approver_user_id = reply.actor
        /\ <<q.apartment_number, q.requesting_user_id>> \in Links(DB)
        /\ q.requesting_user_id # reply.actor

\* C6: of two submit-claims by different requesters on the same vacant
\* in-range unit, in either order, the first inserts its link and the second
\* inserts none: it ends with a pending request whose approver is the first.
C6_OneBareInsert ==
    \A r1, r2 \in Users : \A u \in ValidApartments :
        (r1 # r2 /\ ResidentsOf(DB, u) = {}) =>
            \A res1 \in request_apartment_access(DB, r1, <<u>>) :
                \A res2 \in request_apartment_access(res1.db, r2, <<u>>) :
                    /\ res1.reply.kind = "Linked"
                    /\ res2.reply.kind = "Requested"
                    /\ Links(res2.db) = Links(DB) \cup {<<u, r1>>}
                    /\ \E q \in res2.db.approval_requests :
                        /\ res2.db.approval_requests = approval_requests \cup {q}
                        /\ q.status = "pending"
                        /\ q.apartment_number = u
                        /\ q.requesting_user_id = r2
                        /\ q.approver_user_id = r1

\* C6's case: the second of two claims on a unit has just ended with a pending
\* request, and the unit's only link is the approver's.
C6_Witness ==
    /\ reply.op = "setapartment" /\ reply.kind = "Requested"
    /\ \E q \in approval_requests :
        /\ q.id = requests_seq /\ q.status = "pending"
        /\ q.requesting_user_id = reply.actor
        /\ q.approver_user_id # reply.actor
        /\ ResidentsOf(DB, q.apartment_number) = {q.approver_user_id}

\* C7: while /adminassign is between its first DELETE and its commit, and
\* after it was interrupted there, the database is what it was before the
\* command; once committed, it is the whole command's result.
C7_AllOrNothing ==
    /\ conn.pc \in {"delete_apartment", "delete_user", "insert", "update", "commit", "aborted"}
        => DB = conn.before
    /\ conn.pc = "committed"
        => \E res \in admin_assign(conn.before, conn.actor_id,
                                   <<conn.apartment_number, conn.target_user_id>>) :
                DB = res.db /\ res.reply.kind = "Assigned"

\* C7's case: /adminassign was interrupted after its DELETEs had removed
\* links from its own view of the table.
C7_Witness ==
    /\ conn.pc = "aborted"
    /\ conn.before.apartments # {}
    /\ conn.db.apartments # conn.before.apartments
    /\ apartments = conn.before.apartments

\* C8 as stated, in the case it names: approve and reject by an identity
\* that is not an operator, and is the approver of a pending request of the
\* requester, end in a Permission error and change no request and no link.
C8_ApproveRejectNeedOperator ==
    \A a \in Users \ Operators(DB) : \A r \in Users :
        PendingFor(DB, r, a) # {} =>
            \A res \in approve_request(DB, a, <<r>>) \cup reject_request(DB, a, <<r>>) :
                /\ res.reply.kind = "Permission"
                /\ ~Changes(DB, res.db)

\* C8 as amended: approve and reject ask for no operator tier.  By an
\* identity that is not an operator they never end in a Permission error;
\* they end in Not-Found and change nothing when no pending request of the
\* requester names the identity as approver, and when one does, reject
\* rejects it, and approve approves it and links the requester unless the
\* requester holds a link.
C8_ApproveRejectByApprover ==
    \A a \in Users \ Operators(DB) : \A r \in Users :
        /\ \A res \in approve_request(DB, a, <<r>>) :
            /\ res.reply.kind # "Permission"
            /\ PendingFor(DB, r, a) = {} =>
                    res.reply.kind = "NotFound" /\ ~Changes(DB, res.db)
            /\ (PendingFor(DB, r, a) # {} /\ ApartmentsOf(DB, r) = {}) =>
                /\ res.reply.kind = "Approved"
                /\ \A q \in PendingFor(DB, r, a) : StatusIn(res.db, q.id) = {"approved"}
                /\ ApartmentsOf(res.db, r) # {}
        /\ \A res \in reject_request(DB, a, <<r>>) :
            /\ res.reply.kind # "Permission"
            /\ PendingFor(DB, r, a) = {} =>
                    res.reply.kind = "NotFound" /\ ~Changes(DB, res.db)
            /\ PendingFor(DB, r, a) # {} =>
                /\ res.reply.kind = "Rejected"
                /\ \A q \in PendingFor(DB, r, a) : StatusIn(res.db, q.id) = {"rejected"}
                /\ res.db.apartments = apartments

\* C8's case: an approver who is no operator has just approved a request,
\* and the requester is linked to the unit.
C8_Witness ==
    /\ reply.op = "approve" /\ reply.kind = "Approved"
    /\ reply.actor \notin Operators(DB)
    /\ \E q \in approval_requests :
        /\ q.status = "approved" /\ q.approver_user_id = reply.actor
        /\ <<q.apartment_number, q.requesting_user_id>> \in Links(DB)

\* The results of the commands that ask for operator tier, issued by actor.
OperatorCommandResults(db, actor) ==
    UNION ({admin_assign(db, actor, args) : args \in AssignArgs}
           \cup {admin_unlink(db, actor, args) : args \in UnlinkArgs}
           \cup {admin_delete_apartment(db, actor, args) : args \in ApartmentArgs \cup NoArgs}
           \cup {clear_approval_requests(db, actor),
                 handle_admin_callback(db, actor, "admin_clear_requests"),
                 apartment_stats(db, actor),
                 list_admins(db, actor)})

\* C9: force-assign, unlink, release-unit, clear-pending (command and
\* button), report-occupancy and list-operators by an identity that is not
\* an operator end in Permission and change no link, request or operator.
C9_OperatorGate ==
    \A actor \in Users \ Operators(DB) :
        \A res \in OperatorCommandResults(DB, actor) :
            /\ res.reply.kind = "Permission"
            /\ res.db = DB

\* C9's case: a force-assign by an identity that is no operator has just
\* been refused, with links and a pending request in the registry.
C9_Witness ==
    /\ reply.op = "adminassign" /\ reply.kind = "Permission"
    /\ reply.actor \notin Operators(DB)
    /\ apartments # {}
    /\ \E q \in approval_requests : q.status = "pending"

\* The results of every command, with the command's actor.
AllResults(db) ==
    UNION {UNION ({request_apartment_access(db, u, args) : args \in ApartmentArgs \cup NoArgs}
                  \cup {approve_request(db, u, args) : args \in UserArgs \cup NoArgs}
                  \cup {reject_request(db, u, args) : args \in UserArgs \cup NoArgs}
                  \cup {force_registration(db, u, args) : args \in CodeArgs}
                  \cup {add_admin(db, u, args) : args \in UserArgs \cup NoArgs}
                  \cup {remove_admin(db, u, args) : args \in UserArgs \cup NoArgs}
                  \cup {handle_admin_callback(db, u, data) : data \in CallbackData}
                  \cup {delete_apartment(db, u)})
           \cup OperatorCommandResults(db, u) : u \in Users}

\* C10: only add-operator and remove-operator by the root change the
\* operator set; add-operator, remove-operator and reset by any other actor,
\* operator or not, change no operator, link or request.
C10_RootGate ==
    /\ \A res \in AllResults(DB) :
        res.db.admins # admins =>
            /\ res.reply.op \in {"addadmin", "removeadmin"}
            /\ res.reply.actor = MAIN_ADMIN_ID
    /\ \A actor \in Users \ {MAIN_ADMIN_ID} :
        \A res \in UNION ({add_admin(DB, actor, args) : args \in UserArgs \cup NoArgs}
                          \cup {remove_admin(DB, actor, args) : args \in UserArgs \cup NoArgs}
                          \cup {force_registration(DB, actor, args) : args \in CodeArgs}) :
            /\ res.reply.kind = "Permission"
            /\ res.db = DB

\* C10's case: an operator who is not the root has just been refused
\* add-operator, with a link in the registry.
C10_Witness ==
    /\ reply.op = "addadmin" /\ reply.kind = "Permission"
    /\ reply.actor \in Operators(DB)
    /\ reply.actor # MAIN_ADMIN_ID
    /\ apartments # {}

\* C11: the main admin is in the admins table in every reachable state and
\* after every command; /removeadmin of the main admin is refused (Permission
\* for any other actor) and changes nothing.
C11_RootStaysOperator ==
    /\ MAIN_ADMIN_ID \in Operators(DB)
    /\ \A res \in AllResults(DB) : MAIN_ADMIN_ID \in Operators(res.db)
    /\ \A actor \in Users : \A res \in remove_admin(DB, actor, <<MAIN_ADMIN_ID>>) :
            /\ res.db = DB
            /\ res.reply.kind = IF actor = MAIN_ADMIN_ID THEN "Refused" ELSE "Permission"

\* C11's case: with another operator in the table, the main admin has just
\* asked to remove itself and was refused.
C11_Witness ==
    /\ reply.op = "removeadmin" /\ reply.kind = "Refused"
    /\ reply.actor = MAIN_ADMIN_ID
    /\ Operators(DB) \ {MAIN_ADMIN_ID} # {}
    /\ MAIN_ADMIN_ID \in Operators(DB)

\* C12: /forceregistration by the main admin with the code leaves no link and
\* no request, of any status, and the admins as they were; without the code,
\* or with another one, it changes nothing.
C12_Reset ==
    \A args \in CodeArgs : \A res \in force_registration(DB, MAIN_ADMIN_ID, args) :
        IF args = <<FORCE_REGISTRATION_CODE>>
        THEN /\ res.reply.kind = "Reset"
             /\ res.db.apartments = {}
             /\ res.db.approval_requests = {}
             /\ res.db.admins = admins
        ELSE /\ res.reply.kind = "Usage"
             /\ res.db = DB

\* C12's case: a reset has just emptied a registry that had requests, and an
\* operator added before it is still there.
C12_Witness ==
    /\ reply.op = "forceregistration" /\ reply.kind = "Reset"
    /\ requests_seq > 0
    /\ apartments = {} /\ approval_requests = {}
    /\ Operators(DB) \ {MAIN_ADMIN_ID} # {}

\* The apartment arguments outside both ranges: just below house 1, just
\* above house 2 (the ranges are adjacent), and one that is no digit string.
OutOfRangeInputs == {HOUSE1_START - 1, HOUSE2_END + 1, -1}

\* C13: /setapartment with a number outside both ranges ends in a validation
\* error (the range message, or the usage message when the argument is not
\* a digit string) and adds no link and no request.
C13_OutOfRange ==
    \A r \in Users, u \in OutOfRangeInputs :
        \A res \in request_apartment_access(DB, r, <<u>>) :
            /\ res.reply.kind = IF isdigit(u) THEN "Invalid" ELSE "Usage"
            /\ res.db = DB

\* C13's case: a claim for an out-of-range number has just been refused in a
\* registry that holds links and requests.
C13_Witness ==
    /\ reply.op = "setapartment" /\ reply.kind = "Invalid"
    /\ apartments # {} /\ approval_requests # {}

Pending(db) == {q \in db.approval_requests : q.status = "pending"}

\* C14: /clearrequests by an operator deletes exactly the requests that are
\* pending, whoever their approver, and nothing else; its reply gives their
\* number (the nothing-to-clear reply when it is 0); the same command again,
\* by any operator, finds nothing to clear and changes nothing.
C14_ClearPending ==
    \A a \in Operators(DB) : \A res \in clear_approval_requests(DB, a) :
        /\ res.db.approval_requests = approval_requests \ Pending(DB)
        /\ res.db.apartments = apartments
        /\ res.db.admins = admins
        /\ IF Pending(DB) = {}
           THEN res.reply.kind = "Empty"
           ELSE /\ res.reply.kind = "Cleared"
                /\ res.reply.out = <<Cardinality(Pending(DB))>>
        /\ \A b \in Operators(res.db) : \A again \in clear_approval_requests(res.db, b) :
                /\ again.reply.kind = "Empty"
                /\ again.db = res.db

\* C14's case: a clear has just deleted two pending requests, all there were.
C14_Witness ==
    /\ reply.op = "clearrequests" /\ reply.kind = "Cleared"
    /\ reply.out = <<2>>
    /\ requests_seq = 2
    /\ approval_requests = {}

\* C15: /admindelete by an operator for an in-range apartment with no link
\* gets the already-free reply and changes nothing.
C15_ReleaseVacant ==
    \A a \in Operators(DB) : \A u \in ValidApartments :
        ResidentsOf(DB, u) = {} =>
            \A res \in admin_delete_apartment(DB, a, <<u>>) :
                /\ res.reply.kind = "Vacant"
                /\ res.db = DB

\* C15's case: an operator has just been told that an apartment is already
\* free, in a registry where another apartment is linked.
C15_Witness ==
    /\ reply.op = "admindelete" /\ reply.kind = "Vacant"
    /\ reply.actor \in Operators(DB)
    /\ apartments # {}
    /\ \E u \in ValidApartments : ResidentsOf(DB, u) = {}

\* The elements of a sequence.
Range(s) == {s[i] : i \in 1..Len(s)}

\* C16: /adminunlink x u by an operator removes exactly the link (u, x) when
\* it is there, and is Not-Found with no change when it is not; /adminunlink
\* x removes every link of x and reports exactly the apartments x was linked
\* to, each once, and is Not-Found with no change when x has none.  Links of
\* other users, requests and admins are unchanged throughout.
C16_Unlink ==
    \A a \in Operators(DB) : \A x \in Users :
        /\ \A u \in {n \in ApartmentInputs : isdigit(n)} :
            \A res \in admin_unlink(DB, a, <<x, u>>) :
                /\ res.db.approval_requests = approval_requests
                /\ res.db.admins = admins
                /\ IF <<u, x>> \in Links(DB)
                   THEN /\ res.reply.kind = "Unlinked"
                        /\ res.reply.out = <<u>>
                        /\ Links(res.db) = Links(DB) \ {<<u, x>>}
                   ELSE /\ res.reply.kind = "NotFound"
                        /\ res.db = DB
        /\ \A res \in admin_unlink(DB, a, <<x>>) :
                /\ res.db.approval_requests = approval_requests
                /\ res.db.admins = admins
                /\ IF ApartmentsOf(DB, x) # {}
                   THEN /\ res.reply.kind = "Unlinked"
                        /\ Range(res.reply.out) = ApartmentsOf(DB, x)
                        /\ Len(res.reply.out) = Cardinality(ApartmentsOf(DB, x))
                        /\ Links(res.db) = {l \in Links(DB) : l[2] # x}
                   ELSE /\ res.reply.kind = "NotFound"
                        /\ res.db = DB

\* C16's case: an unlink has just removed a user's link to an apartment, and
\* another user's link to that apartment is still there.
C16_Witness ==
    /\ reply.op = "adminunlink" /\ reply.kind = "Unlinked"
    /\ \E row \in apartments : row.apartment_number \in Range(reply.out)

\* No two rows of apartments have the same (apartment_number, user_id).
UniqueLinks(db) ==
    \A row1, row2 \in db.apartments :
        (row1.apartment_number = row2.apartment_number /\ row1.user_id = row2.user_id)
            => row1 = row2

\* C17: no two links have the same (apartment, user) pair, in every
\* reachable state and after every command from it; and an INSERT of a pair
\* that is in the table adds no second row.
C17_UniqueLinks ==
    /\ UniqueLinks(DB)
    /\ \A res \in AllResults(DB) : UniqueLinks(res.db)
    /\ \A l \in Links(DB) : UniqueLinks(InsertApartment(DB, l[1], l[2]))

\* C17's case: an approve has just been refused for a requester who already
\* holds the very link the pending request asks for, and the table has that
\* link once.
C17_Witness ==
    /\ reply.op = "approve" /\ reply.kind = "Conflict"
    /\ \E q \in Pending(DB) :
        /\ q.approver_user_id = reply.actor
        /\ Cardinality({row \in apartments :
                /\ row.apartment_number = q.apartment_number
                /\ row.user_id = q.requesting_user_id}) = 1

\* The apartment numbers from lo to hi that have at least one link, counted.
OccupiedIn(db, lo, hi) == Cardinality({u \in lo..hi : ResidentsOf(db, u) # {}})

\* The linked apartment numbers outside both ranges, counted.
Anomalies(db) ==
    Cardinality({row.apartment_number : row \in db.apartments}
                    \ ((HOUSE1_START..HOUSE1_END) \cup (HOUSE2_START..HOUSE2_END)))

\* C18: /apartmentstats by an operator reports, for each house, as occupied
\* the number of distinct apartment numbers of its range that have a link
\* and as free the size of the range minus that; it reports the number of
\* distinct linked numbers outside both ranges (in a line of its own when
\* it is not 0); and it leaves the database unchanged.
C18_Stats ==
    \A a \in Operators(DB) : \A res \in apartment_stats(DB, a) :
        LET out == res.reply.out IN
        /\ res.db = DB
        /\ res.reply.kind = "Stats"
        /\ Len(out) >= 9
        /\ out[1] = OccupiedIn(DB, HOUSE1_START, HOUSE1_END)
        /\ out[3] = (HOUSE1_END - HOUSE1_START + 1) - out[1]
        /\ out[4] = OccupiedIn(DB, HOUSE2_START, HOUSE2_END)
        /\ out[6] = (HOUSE2_END - HOUSE2_START + 1) - out[4]
        /\ IF Anomalies(DB) > 0
           THEN Len(out) = 10 /\ out[10] = Anomalies(DB)
           ELSE Len(out) = 9

\* C18's case: statistics have just been given for a table with links in
\* both houses, an apartment with two residents and a number outside the
\* ranges.
C18_Witness ==
    /\ reply.op = "apartmentstats" /\ reply.kind = "Stats"
    /\ reply.out[1] > 0 /\ reply.out[4] > 0
    /\ Len(reply.out) = 10
    /\ \E u \in StatsNumbers : Cardinality(ResidentsOf(DB, u)) = 2

\* C19 as stated: an approve adds a link only for an apartment the acting
\* approver is linked to when approving.
C19_ApproverStillResident ==
    \A a, r \in Users : \A res \in approve_request(DB, a, <<r>>) :
        \A l \in Links(res.db) \ Links(DB) : a \in ResidentsOf(DB, l[1])

\* C20 as stated: an approve that succeeds changes the status of exactly one
\* request; every other request keeps its status.
C20_ApproveOneRequest ==
    \A a, r \in Users : \A res \in approve_request(DB, a, <<r>>) :
        res.reply.kind = "Approved" =>
            Cardinality({q \in approval_requests : ~KeepsStatus(q, res.db)}) = 1

\* C21 as stated: reject by an approver with no matching pending request is
\* Not-Found and changes nothing; otherwise it sets one matching pending
\* request to rejected and changes no other request and no link.
C21_RejectOneRequest ==
    \A a, r \in Users : \A res \in reject_request(DB, a, <<r>>) :
        IF PendingFor(DB, r, a) = {}
        THEN res.reply.kind = "NotFound" /\ res.db = DB
        ELSE /\ res.reply.kind = "Rejected"
             /\ res.db.apartments = apartments
             /\ \E q \in PendingFor(DB, r, a) :
                    res.db.approval_requests =
                        (approval_requests \ {q}) \cup {[q EXCEPT !.status = "rejected"]}

\* The request created last among those of Q.
Latest(Q) == CHOOSE q \in Q : \A q2 \in Q : q2.id <= q.id

\* C22 as stated: approve with no pending request of the requester naming
\* the actor is Not-Found and changes nothing; otherwise, when it succeeds,
\* the link it adds is for the unit of the most recently created of those
\* requests.
C22_ApproveLatest ==
    \A a, r \in Users : \A res \in approve_request(DB, a, <<r>>) :
        IF PendingFor(DB, r, a) = {}
        THEN res.reply.kind = "NotFound" /\ res.db = DB
        ELSE res.reply.kind = "Approved" =>
                Links(res.db) = Links(DB) \cup
                    {<<Latest(PendingFor(DB, r, a)).apartment_number, r>>}

\* C23: after /adminassign u x by operator o, every request that was pending
\* for unit u and requester x is approved with approver o and otherwise as it
\* was, every other request is exactly as it was, and no request is added
\* or deleted.
C23_AssignApproves ==
    \A o \in Operators(DB), u \in ValidApartments, x \in Users :
        \A res \in admin_assign(DB, o, <<u, x>>) :
            res.db.approval_requests =
                {IF q.status = "pending" /\ q.apartment_number = u
                        /\ q.requesting_user_id = x
                 THEN [id |-> q.id, apartment_number |-> u, requesting_user_id |-> x,
                       approver_user_id |-> o, status |-> "approved"]
                 ELSE q : q \in approval_requests}

\* C23's case: a force-assign has just approved a request in the operator's
\* name, beside a request of another requester for the same unit that it
\* left pending with the approver it had.
C23_Witness ==
    /\ reply.op = "adminassign" /\ reply.kind = "Assigned"
    /\ \E q1, q2 \in approval_requests :
        /\ q1.status = "approved" /\ q1.approver_user_id = reply.actor
        /\ <<q1.apartment_number, q1.requesting_user_id>> \in Links(DB)
        /\ reply.actor \notin ResidentsOf(DB, q1.apartment_number)
        /\ q2.status = "pending" /\ q2.requesting_user_id # q1.requesting_user_id
        /\ q2.apartment_number = q1.apartment_number
        /\ q2.approver_user_id # reply.actor

\* The request that db2 has and db1 has not is q, and nothing else differs
\* between their requests.
AddsRequest(db1, db2, q) ==
    q \notin db1.approval_requests /\ db2.approval_requests = db1.approval_requests \cup {q}

\* The resident of apartment_number whose row was inserted first.
EarliestResident(db, apartment_number) ==
    LET rows == {x \in db.apartments : x.apartment_number = apartment_number}
    IN (CHOOSE x \in rows : \A y \in rows : x.id <= y.id).user_id

\* C24: /setapartment u on an occupied unit creates one pending request of
\* the requester for u, and its approver is one identity that holds a link
\* for u when it is created.
C24_ApproverIsOccupant ==
    \A r \in Users, u \in ValidApartments :
        \A res \in request_apartment_access(DB, r, <<u>>) :
            /\ res.reply.kind = "Requested" <=> ResidentsOf(DB, u) # {}
            /\ res.reply.kind = "Requested" =>
                \E q \in res.db.approval_requests :
                    /\ AddsRequest(DB, res.db, q)
                    /\ q.status = "pending"
                    /\ q.apartment_number = u
                    /\ q.requesting_user_id = r
                    /\ q.approver_user_id \in ResidentsOf(DB, u)

\* C24 as stated: the approver of the request /setapartment u creates is
\* the occupant of u whose link was inserted first.
C24_ApproverIsEarliest ==
    \A r \in Users, u \in ValidApartments :
        \A res \in request_apartment_access(DB, r, <<u>>) :
            res.reply.kind = "Requested" =>
                \E q \in res.db.approval_requests :
                    /\ AddsRequest(DB, res.db, q)
                    /\ q.approver_user_id = EarliestResident(DB, u)

\* C24's case: a claim on a unit with two occupants has just created its
\* request, and the approver named is the occupant with the smaller
\* identity, whose link is the later of the two.
C24_Witness ==
    /\ reply.op = "setapartment" /\ reply.kind = "Requested"
    /\ \E q \in approval_requests :
        /\ q.id = requests_seq /\ q.status = "pending"
        /\ q.requesting_user_id = reply.actor
        /\ Cardinality(ResidentsOf(DB, q.apartment_number)) = 2
        /\ \A x \in ResidentsOf(DB, q.apartment_number) : q.approver_user_id <= x
        /\ q.approver_user_id # EarliestResident(DB, q.apartment_number)

C26_OneLinkByApproval ==
    \A a, r \in Users : \A res \in approve_request(DB, a, <<r>>) :
        res.reply.kind = "Approved" =>
            /\ \E q \in PendingFor(DB, r, a) :
                    {l \in Links(res.db) : l[2] = r} = {<<q.apartment_number, r>>}
            /\ \A a2 \in Users \ {a} : \A res2 \in approve_request(res.db, a2, <<r>>) :
                    /\ res2.reply.kind \in {"Conflict", "NotFound"}
                    /\ res2.db = res.db

\* C26's case: two approvers held a pending request of one requester, each
\* for a unit of their own; the first has approved, and the second's approve
\* has just ended in Conflict, its request still pending and the requester
\* linked to the first unit only.
C26_Witness ==
    /\ reply.op = "approve" /\ reply.kind = "Conflict"
    /\ \E q1, q2 \in approval_requests :
        /\ q1.requesting_user_id = q2.requesting_user_id
        /\ q1.apartment_number # q2.apartment_number
        /\ q1.status = "approved" /\ q1.approver_user_id # reply.actor
        /\ q2.status = "pending" /\ q2.approver_user_id = reply.actor
        /\ ApartmentsOf(DB, q1.requesting_user_id) = {q1.apartment_number}
        /\ reply.actor \in ResidentsOf(DB, q2.apartment_number)

\* C27 as stated: an approve that succeeds adds the link (unit, requester)
\* and removes none, the approver is still linked to the unit, and the unit
\* ends with at least two occupants.
C27_ApproveKeepsOccupants ==
    \A a, r \in Users : \A res \in approve_request(DB, a, <<r>>) :
        res.reply.kind = "Approved" =>
            \E q \in PendingFor(DB, r, a) :
                /\ Links(res.db) = Links(DB) \cup {<<q.apartment_number, r>>}
                /\ <<q.apartment_number, r>> \notin Links(DB)
                /\ a \in ResidentsOf(res.db, q.apartment_number)
                /\ Cardinality(ResidentsOf(res.db, q.apartment_number)) >= 2

\* The apartment numbers /admindelete is asked about: those of the commands
\* and those of the tables found.
ReleaseNumbers == {n \in ApartmentInputs \cup StatsNumbers : isdigit(n)}

\* C28: /admindelete u by an operator, for u in a range and linked, removes
\* every row of u and no other row, lists exactly the residents removed,
\* each once, and leaves requests and admins as they were; for u outside
\* both ranges it gives the invalid-number reply and changes nothing, linked
\* or not.
C28_ReleaseUnit ==
    \A o \in Operators(DB), u \in ReleaseNumbers :
        \A res \in admin_delete_apartment(DB, o, <<u>>) :
            IF ~is_valid_apartment(u)
            THEN res.reply.kind = "Invalid" /\ res.db = DB
            ELSE ResidentsOf(DB, u) # {} =>
                    /\ res.reply.kind = "Released"
                    /\ res.db.apartments = {x \in apartments : x.apartment_number # u}
                    /\ res.db.approval_requests = approval_requests
                    /\ res.db.admins = admins
                    /\ Range(res.reply.out) = ResidentsOf(DB, u)
                    /\ Len(res.reply.out) = Cardinality(ResidentsOf(DB, u))

\* C28's case: an apartment with two residents has just been released, both
\* listed, while the rows of a number outside the ranges, the rows of
\* another apartment and a pending request for the released one are there.
C28_Witness ==
    /\ reply.op = "admindelete" /\ reply.kind = "Released"
    /\ Len(reply.out) = 2
    /\ \E x \in apartments : ~is_valid_apartment(x.apartment_number)
    /\ \E x \in apartments : is_valid_apartment(x.apartment_number)
    /\ \E q \in Pending(DB) : ResidentsOf(DB, q.apartment_number) = {}

\* C29: /deleteapartment by a user with links removes every row of that
\* user and no other row, names one of the user's apartments, and leaves
\* requests and admins as they were; by a user with no link it is Not-Found
\* and changes nothing.
C29_ReleaseOwnLinks ==
    \A u \in Users : \A res \in delete_apartment(DB, u) :
        IF ApartmentsOf(DB, u) = {}
        THEN res.reply.kind = "NotFound" /\ res.db = DB
        ELSE /\ res.reply.kind = "Deleted"
             /\ res.db.apartments = {x \in apartments : x.user_id # u}
             /\ res.db.approval_requests = approval_requests
             /\ res.db.admins = admins
             /\ Len(res.reply.out) = 1
             /\ res.reply.out[1] \in ApartmentsOf(DB, u)

\* C29's case: a user who held the only two links of the table has just
\* released them, one apartment reported, and a request naming that user as
\* approver is still pending.
C29_Witness ==
    /\ reply.op = "deleteapartment" /\ reply.kind = "Deleted"
    /\ apartments = {} /\ apartments_seq = 2
    /\ \E q \in Pending(DB) :
        /\ q.approver_user_id = reply.actor
        /\ q.requesting_user_id # reply.actor

\* The results of the commands that are not to change a link: reject,
\* clear-pending (command and button), /setapartment on an occupied unit or
\* with a refused argument, add-operator, remove-operator, list-operators
\* and report-occupancy.
LinkKeepingResults(db) ==
    UNION {UNION ({reject_request(db, u, args) : args \in UserArgs \cup NoArgs}
                  \cup {request_apartment_access(db, u, <<n>>) :
                            n \in {x \in ApartmentInputs : ResidentsOf(db, x) # {}}}
                  \cup {add_admin(db, u, args) : args \in UserArgs \cup NoArgs}
                  \cup {remove_admin(db, u, args) : args \in UserArgs \cup NoArgs}
                  \cup {handle_admin_callback(db, u, data) : data \in CallbackData}
                  \cup {clear_approval_requests(db, u),
                        list_admins(db, u),
                        apartment_stats(db, u)}) : u \in Users}

\* C30: reject, clear-pending, /setapartment on an occupied unit,
\* add-operator, remove-operator, list-operators and report-occupancy leave
\* the apartments table exactly as it was, whoever sends them and whatever
\* their outcome.
C30_LinksFrame ==
    \A res \in LinkKeepingResults(DB) :
        /\ res.db.apartments = apartments
        /\ res.db.apartments_seq = apartments_seq

\* C30's case: a reject has just resolved a request for an occupied unit;
\* the approver is linked to it and the requester is not.
C30_Witness ==
    /\ reply.op = "reject" /\ reply.kind = "Rejected"
    /\ \E q \in approval_requests :
        /\ q.status = "rejected" /\ q.approver_user_id = reply.actor
        /\ reply.actor \in ResidentsOf(DB, q.apartment_number)
        /\ q.requesting_user_id \notin ResidentsOf(DB, q.apartment_number)

\* C31: from the database create_db makes, in every reachable state every
\* row of apartments and every approval request has an apartment number in
\* one of the two ranges, so no linked number lies outside them and
\* /apartmentstats by an operator has no line for such numbers.
C31_UnitsInRange ==
    /\ \A row \in apartments : is_valid_apartment(row.apartment_number)
    /\ \A q \in approval_requests : is_valid_apartment(q.apartment_number)
    /\ Anomalies(DB) = 0
    /\ \A a \in Operators(DB) : \A res \in apartment_stats(DB, a) :
            Len(res.reply.out) = 9

\* C31's case: an operator has just been refused a force-assign of a number
\* above both ranges, in a registry that holds links and requests.
C31_Witness ==
    /\ reply.op = "adminassign" /\ reply.kind = "Invalid"
    /\ apartments # {} /\ approval_requests # {}
    /\ Anomalies(DB) = 0

\* C32: /setapartment u by a user who holds a link to another apartment is
\* not refused: on a vacant in-range u it adds the link (u, user) beside the
\* links the user had, and on an occupied u it adds a pending request of the
\* user for u and leaves the user's links as they were.
C32_NoOneUnitPerPerson ==
    \A r \in Users, u \in ValidApartments :
        (ApartmentsOf(DB, r) # {} /\ u \notin ApartmentsOf(DB, r)) =>
            \A res \in request_apartment_access(DB, r, <<u>>) :
                IF ResidentsOf(DB, u) = {}
                THEN /\ res.reply.kind = "Linked"
                     /\ ApartmentsOf(res.db, r) = ApartmentsOf(DB, r) \cup {u}
                     /\ Cardinality(ApartmentsOf(res.db, r)) >= 2
                ELSE /\ res.reply.kind = "Requested"
                     /\ ApartmentsOf(res.db, r) = ApartmentsOf(DB, r)
                     /\ \E q \in Pending(res.db) \ approval_requests :
                            q.requesting_user_id = r /\ q.apartment_number = u

\* C32's case: one user holds the links of two apartments, both claimed
\* while vacant, and another user, linked to one of them, has just got a
\* pending request for the other.
C32_Witness ==
    /\ reply.op = "setapartment" /\ reply.kind = "Requested"
    /\ \E q \in Pending(DB) :
        /\ q.id = requests_seq
        /\ q.requesting_user_id = reply.actor
        /\ ApartmentsOf(DB, reply.actor) # {}
        /\ q.apartment_number \notin ApartmentsOf(DB, reply.actor)
    /\ \E a \in Users \ {reply.actor} : Cardinality(ApartmentsOf(DB, a)) = 2

\* C33: /addadmin by the main admin for an id that is in the admins table,
\* the main admin's own included, leaves the table as it was, rows and
\* added_by values, and changes nothing else; and the main admin's row has
\* added_by NULL in every reachable state.
C33_AddOperatorIdempotent ==
    /\ \A id \in Operators(DB) : \A res \in add_admin(DB, MAIN_ADMIN_ID, <<id>>) :
            /\ res.db.admins = admins
            /\ res.db = DB
    /\ \A a \in admins : a.user_id = MAIN_ADMIN_ID => a.added_by = NULL

\* C33's case: the main admin has just added itself, and the table holds
\* its row alone, added_by NULL, as create_db wrote it.
C33_Witness ==
    /\ reply.op = "addadmin" /\ reply.kind = "Added"
    /\ reply.actor = MAIN_ADMIN_ID
    /\ updates > 0
    /\ admins = {[user_id |-> MAIN_ADMIN_ID, added_by |-> NULL]}
====
